---- MODULE Spec2Model ----
(***************************************************************************)
(* Model of ghiseul-monitor (src/main.py): the GhiseulMonitor engine       *)
(* thread (run / execute / _login / _debit / __create_driver), the Flask   *)
(* status route reading the global OUTPUT, and the main thread's           *)
(* KeyboardInterrupt handler.                                              *)
(*                                                                         *)
(* A python dict is a sequence of <<key, value>> pairs (insertion order).  *)
(* A snapshot is a record; the initial OUTPUT = {} is the empty function.  *)
(* Times are integer milliseconds; a duration is kept in milliseconds      *)
(* rounded to a multiple of 10 (two decimals of a second).                 *)
(***************************************************************************)
EXTENDS Integers, Sequences, FiniteSets, TLC

VARIABLES
    persistent_driver,  \* self.persistent_driver (EngineConfig, fixed)
    drivers,            \* every webdriver.Chrome ever created: seq of "Active"/"Closed"
    driver,             \* self.driver: index into drivers, 0 = attribute not set yet
    pc,                 \* position of the engine thread inside run()/execute()
    i,                  \* run(): iteration counter
    now,                \* wall clock read by datetime.now()
    cls_output,         \* GhiseulMonitor.output, the class-level template
    output,             \* execute(): the local dict being built
    flowIdx,            \* execute(): position of the for loop in self.flows
    OUTPUT,             \* module-level global OUTPUT
    exc,                \* uncaught exception that ended the engine thread ("" = none)
    pcMain,             \* position of the main thread
    response,           \* body of the last answer of monitor_route
    invoked,            \* history: steps invoked in the current cycle, <<flow, driver>>
    ops,                \* history: browser operations of the step that ran last
    steps,              \* history: the steps that returned in the current cycle:
                        \*   flow, measured flow_timer, try block that failed ("" = none),
                        \*   outcome of the step's URL comparison, returned pair
    lastReturned        \* history: the dict the last finished execute() returned ({} = none)

vars == <<persistent_driver, drivers, driver, pc, i, now, cls_output, output,
          flowIdx, OUTPUT, exc, pcMain, response, invoked, ops, steps, lastReturned>>

(***************************************************************************)
(* Bounds of the model                                                     *)
(***************************************************************************)
\* number of iterations of run() that are explored
MaxIter == 2

\* the values a measured flow_timer may take, in milliseconds
FlowTimes == {4, 6}

\* the same, where the threads interleave and the timing is not the subject
CoarseTimes == {4}

(***************************************************************************)
(* Program constants                                                       *)
(***************************************************************************)
flows == <<"login", "debit">>

ErrLoginFind == "Could not find login for or input fields"

ErrLoginFill == "Could not fill in login form"

ErrLoginSubmit == "Could not submit login form"

ErrDebitInst == "Could not find institution element"

ErrDebitShow == "Could not find show button for instituion"

ErrDebitPay == "Could not find pay button for instituion"

\* OUTPUT = {}
EmptyDict == [k \in {} |-> FALSE]

\* GhiseulMonitor.output
OutputTemplate ==
    [flows |-> <<>>, success |-> FALSE, error |-> "", duration |-> 0, date |-> ""]

(***************************************************************************)
(* Python helpers                                                          *)
(***************************************************************************)
\* keys of a dict, in insertion order
Keys(d) == [n \in 1..Len(d) |-> d[n][1]]

\* values of a dict, in insertion order
Values(d) == [n \in 1..Len(d) |-> d[n][2]]

HasKey(d, k) == \E n \in 1..Len(d) : d[n][1] = k

\* d[k]
DictGet(d, k) == d[CHOOSE n \in 1..Len(d) : d[n][1] = k][2]

\* variant: a new key is put in front of the others
DictSet_Prepend(d, k, v) ==
    IF HasKey(d, k)
    THEN [n \in 1..Len(d) |-> IF d[n][1] = k THEN <<k, v>> ELSE d[n]]
    ELSE <<<<k, v>>>> \o d

\* d[k] = v : replaces in place, or appends a new key at the end
DictSet(d, k, v) ==
    IF HasKey(d, k)
    THEN [n \in 1..Len(d) |-> IF d[n][1] = k THEN <<k, v>> ELSE d[n]]
    ELSE Append(d, <<k, v>>)

\* str.upper() on the flow names
upper(s) ==
    CASE s = "login" -> "LOGIN"
      [] s = "debit" -> "DEBIT"
      [] OTHER -> s

\* round(seconds, 2) on a value in milliseconds: nearest multiple of 10
\* (FlowTimes avoids the ties, where the binary float decides)
round2(ms) == ((ms + 5) \div 10) * 10

\* copy.deepcopy: a value shares nothing with its copy
deepcopy(d) == d

\* datetime.now().strftime(...): the reading of the clock at that moment
strftime(t) == "T" \o ToString(t)

\* flask.jsonify: a dict becomes a JSON object, a nested dict a nested object
\* (a mapping from key to value; JSON objects carry no insertion order)
JsonObject(d) == [k \in {d[n][1] : n \in 1..Len(d)} |-> DictGet(d, k)]

jsonify(d) == [k \in DOMAIN d |-> IF k = "flows" THEN JsonObject(d[k]) ELSE d[k]]

(***************************************************************************)
(* Flow steps.  A step is a fixed sequence of browser operations; each     *)
(* operation either succeeds or raises.  plan[n].zone names the try block  *)
(* the operation is in ("none": outside every try block).  failAt is the   *)
(* first operation that raises (0: none does).                             *)
(***************************************************************************)
Op(name, zone) == [op |-> name, zone |-> zone]

\* variant: no short-circuit, the form is looked up whatever current_url is
LoginPlan_NoShortCircuit(redirected) ==
    << Op("get(login_page)", "none"),
       Op("current_url", "none"),
       Op("wait(login)", "find"),
       Op("find(username)", "find"),
       Op("find(passwordP)", "find"),
       Op("find(passwordT)", "find"),
       Op("username.click", "fill"),
       Op("username.send_keys", "fill"),
       Op("passwordT.click", "fill"),
       Op("passwordP.click", "fill"),
       Op("passwordP.send_keys", "fill"),
       Op("login.submit", "submit") >>

\* _login: the operations it performs when the page is / is not redirected
LoginPlan(redirected) ==
    IF redirected
    THEN << Op("get(login_page)", "none"),
            Op("current_url", "none"),
            Op("current_url", "none") >>
    ELSE << Op("get(login_page)", "none"),
            Op("current_url", "none"),
            Op("wait(login)", "find"),
            Op("find(username)", "find"),
            Op("find(passwordP)", "find"),
            Op("find(passwordT)", "find"),
            Op("username.click", "fill"),
            Op("username.send_keys", "fill"),
            Op("passwordT.click", "fill"),
            Op("passwordP.click", "fill"),
            Op("passwordP.send_keys", "fill"),
            Op("login.submit", "submit") >>

\* _debit: the operations it performs when the session is / is not on the debit page
DebitPlan(atDebit) ==
    IF atDebit
    THEN << Op("current_url", "none"),
            Op("wait(institution)", "inst"),
            Op("wait(showDebiteBtn)", "show"),
            Op("showDebiteBtn.click", "show"),
            Op("wait(detalii)", "pay") >>
    ELSE << Op("current_url", "none"),
            Op("get(debit_page)", "none"),
            Op("wait(institution)", "inst"),
            Op("wait(showDebiteBtn)", "show"),
            Op("showDebiteBtn.click", "show"),
            Op("wait(detalii)", "pay") >>

\* the message of each except block
ErrOf(zone) ==
    CASE zone = "find" -> ErrLoginFind
      [] zone = "fill" -> ErrLoginFill
      [] zone = "submit" -> ErrLoginSubmit
      [] zone = "inst" -> ErrDebitInst
      [] zone = "show" -> ErrDebitShow
      [] zone = "pay" -> ErrDebitPay
      [] OTHER -> ""

\* the outcome of a step whose failAt-th operation raises
StepResult(plan, failAt) ==
    IF failAt = 0
    THEN [raised |-> FALSE, flow_output |-> TRUE, flow_err |-> ""]
    ELSE IF plan[failAt].zone = "none"
         THEN [raised |-> TRUE, flow_output |-> FALSE, flow_err |-> ""]
         ELSE [raised |-> FALSE, flow_output |-> FALSE, flow_err |-> ErrOf(plan[failAt].zone)]

\* the operations a step attempted, the raising one included
StepOps(plan, failAt) ==
    [n \in 1..(IF failAt = 0 THEN Len(plan) ELSE failAt) |-> plan[n].op]

\* which operations may raise: any on an Active session, the first on a Closed one
FailChoices(plan, state) ==
    IF state = "Active" THEN 0..Len(plan) ELSE {1}

(***************************************************************************)
(* execute(): one pass of the for loop body after the step returned        *)
(***************************************************************************)
\* output["error"] = f"{output['error']}{flow.upper()}: {flow_err}; " if flow_err else output["error"]
ErrorAppend(error, flow, flow_err) ==
    IF flow_err # "" THEN error \o upper(flow) \o ": " \o flow_err \o "; " ELSE error

\* lines 119-121
Accumulate(out, flow, flow_output, flow_err, flow_timer) ==
    [out EXCEPT !.flows = DictSet(out.flows, flow, flow_output),
                !.error = ErrorAppend(out.error, flow, flow_err),
                !.duration = round2(out.duration + flow_timer)]

\* variant: success as soon as one flow succeeded
Success_Any(out) == \E n \in 1..Len(flows) : DictGet(out.flows, flows[n]) = TRUE

\* output["success"] = False not in [output["flows"][f] for f in self.flows]
Success(out) == \A n \in 1..Len(flows) : DictGet(out.flows, flows[n]) # FALSE

\* variant: the for loop is left at the first failed step
NextFlow_Break(flow_output, idx) == IF flow_output THEN idx + 1 ELSE Len(flows) + 1

\* the for loop goes on to the next flow whatever the step returned
NextFlow(flow_output, idx) == idx + 1

\* variant: execute() builds its result in the module global itself
GlobalDuringExecute_Alias(g, local) == local

\* execute() works on its own local dict: the module global is not touched
\* by the loop body, only rebound by run() when execute() has returned
GlobalDuringExecute(g, local) == g

\* variant: the per-iteration create and quit are not guarded
EphemeralDriver_Always(persistent) == TRUE

\* run(): "if not self.persistent_driver" guards the per-iteration create and quit
EphemeralDriver(persistent) == ~persistent

\* webdriver.Chrome(...): a new session, Active
CreateDriver(ds) == Append(ds, "Active")

\* variant: quit() leaves the session open
QuitDriver_Noop(ds, d) == ds

\* self.driver.quit(): the session is Closed afterwards
QuitDriver(ds, d) == [ds EXCEPT ![d] = "Closed"]

NoResponse == [status |-> "none"]

(***************************************************************************)
(* Initial state: the monitor is constructed (__init__ created the driver  *)
(* in persistent mode), both threads are started and the main thread is    *)
(* in its "while True: pass" loop.                                         *)
(***************************************************************************)
Init ==
    /\ persistent_driver \in BOOLEAN
    /\ drivers = IF persistent_driver THEN CreateDriver(<<>>) ELSE <<>>
    /\ driver = IF persistent_driver THEN 1 ELSE 0
    /\ pc = "top"
    /\ i = 0
    /\ now = 0
    /\ cls_output = OutputTemplate
    /\ output = EmptyDict
    /\ flowIdx = 0
    /\ OUTPUT = EmptyDict
    /\ exc = ""
    /\ pcMain = "spin"
    /\ response = NoResponse
    /\ invoked = <<>>
    /\ ops = <<>>
    /\ steps = <<>>
    /\ lastReturned = EmptyDict

(***************************************************************************)
(* Engine thread: run()                                                    *)
(***************************************************************************)
\* lines 83-87: start of an iteration, create the ephemeral driver.
\* webdriver.Chrome() may raise; nothing in run() catches it.
IterationStart ==
    /\ pc = "top"
    /\ i < MaxIter
    /\ IF EphemeralDriver(persistent_driver)
       THEN \E created \in BOOLEAN :
              IF created
              THEN /\ drivers' = CreateDriver(drivers)
                   /\ driver' = Len(drivers) + 1
                   /\ pc' = "execute"
                   /\ exc' = exc
              ELSE /\ pc' = "dead"
                   /\ exc' = "create_driver"
                   /\ UNCHANGED <<drivers, driver>>
       ELSE /\ pc' = "execute"
            /\ UNCHANGED <<drivers, driver, exc>>
    /\ UNCHANGED <<persistent_driver, i, now, cls_output, output, flowIdx, OUTPUT,
                   pcMain, response, invoked, ops, steps, lastReturned>>

\* lines 104-106: execute() clones the template and stamps the date
ExecuteBegin ==
    /\ pc = "execute"
    /\ output' = [deepcopy(cls_output) EXCEPT !.date = strftime(now)]
    /\ flowIdx' = 1
    /\ pc' = "for"
    /\ invoked' = <<>>
    /\ ops' = <<>>
    /\ steps' = <<>>
    /\ UNCHANGED <<persistent_driver, drivers, driver, i, now, cls_output, OUTPUT,
                   exc, pcMain, response, lastReturned>>

\* lines 109-112: the for loop picks the next flow and calls its method
FlowCall ==
    /\ pc = "for"
    /\ flowIdx <= Len(flows)
    /\ pc' = "in_flow"
    /\ invoked' = Append(invoked, <<flows[flowIdx], driver>>)
    /\ ops' = <<>>
    /\ UNCHANGED <<persistent_driver, drivers, driver, i, now, cls_output, output,
                   flowIdx, OUTPUT, exc, pcMain, response, steps, lastReturned>>

\* variant: execute() works on the class attribute itself, not on a copy
TemplateDuringExecute_Alias(template, local) == local

\* execute() works on a deep copy: the class-level template is not touched
TemplateDuringExecute(template, local) == template

\* lines 112-121: the step ran to its end (plan, failAt), took flow_timer;
\* branch is what its comparison of current_url (line 149 / 209) gave
FlowFinish(flow, branch, plan, failAt, flow_timer) ==
    LET res == StepResult(plan, failAt) IN
    /\ ops' = StepOps(plan, failAt)
    /\ IF res.raised
       THEN /\ pc' = "dead"
            /\ exc' = flow
            /\ UNCHANGED <<output, flowIdx, steps, OUTPUT, cls_output>>
       ELSE /\ output' = Accumulate(output, flow, res.flow_output, res.flow_err, flow_timer)
            /\ OUTPUT' = GlobalDuringExecute(OUTPUT, output')
            /\ cls_output' = TemplateDuringExecute(cls_output, output')
            /\ flowIdx' = NextFlow(res.flow_output, flowIdx)
            /\ steps' = Append(steps, [flow |-> flow, flow_timer |-> flow_timer,
                                        failed |-> IF failAt = 0 THEN "" ELSE plan[failAt].zone,
                                        branch |-> branch,
                                        flow_output |-> res.flow_output,
                                        flow_err |-> res.flow_err])
            /\ pc' = "for"
            /\ exc' = exc
    /\ UNCHANGED <<persistent_driver, drivers, driver, i, now,
                   pcMain, response, invoked, lastReturned>>

\* _login (lines 132-194) as called from line 112
Login(times) ==
    /\ pc = "in_flow"
    /\ flows[flowIdx] = "login"
    /\ \E redirected \in BOOLEAN, flow_timer \in times :
         \E failAt \in FailChoices(LoginPlan(redirected), drivers[driver]) :
            FlowFinish("login", redirected, LoginPlan(redirected), failAt, flow_timer)

\* _debit (lines 196-247) as called from line 112
Debit(times) ==
    /\ pc = "in_flow"
    /\ flows[flowIdx] = "debit"
    /\ \E atDebit \in BOOLEAN, flow_timer \in times :
         \E failAt \in FailChoices(DebitPlan(atDebit), drivers[driver]) :
            FlowFinish("debit", atDebit, DebitPlan(atDebit), failAt, flow_timer)

\* lines 124-127 and the assignment of line 90: execute() returns and run()
\* rebinds the global OUTPUT to the returned dict
ExecuteReturn ==
    /\ pc = "for"
    /\ flowIdx > Len(flows)
    /\ LET result == [output EXCEPT !.success = Success(output)] IN
         /\ OUTPUT' = result
         /\ lastReturned' = result
    /\ output' = EmptyDict
    /\ pc' = "sleep"
    /\ UNCHANGED <<persistent_driver, drivers, driver, i, now, cls_output, flowIdx,
                   exc, pcMain, response, invoked, ops, steps>>

\* line 94: time.sleep(refresh*60) elapses
Sleep ==
    /\ pc = "sleep"
    /\ pc' = "wake"
    /\ now' = now + 1
    /\ ops' = <<>>
    /\ steps' = <<>>
    /\ UNCHANGED <<persistent_driver, drivers, driver, i, cls_output, output, flowIdx,
                   OUTPUT, exc, pcMain, response, invoked, lastReturned>>

\* lines 95-99: count the iteration, quit the ephemeral driver.
\* driver.quit() may raise (e.g. the session is gone); nothing catches it.
IterationEnd ==
    /\ pc = "wake"
    /\ i' = i + 1
    /\ IF EphemeralDriver(persistent_driver)
       THEN /\ drivers' = QuitDriver(drivers, driver)
            /\ \E raised \in BOOLEAN :
                 IF raised
                 THEN pc' = "dead" /\ exc' = "driver.quit"
                 ELSE pc' = "top" /\ exc' = exc
       ELSE /\ pc' = "top"
            /\ UNCHANGED <<drivers, exc>>
    /\ UNCHANGED <<persistent_driver, driver, now, cls_output, output, flowIdx, OUTPUT,
                   pcMain, response, invoked, ops, steps, lastReturned>>

(***************************************************************************)
(* Web thread: monitor_route                                               *)
(***************************************************************************)
\* lines 363-366: return jsonify(OUTPUT)
monitor_route ==
    /\ response' = jsonify(OUTPUT)
    /\ UNCHANGED <<persistent_driver, drivers, driver, pc, i, now, cls_output, output,
                   flowIdx, OUTPUT, exc, pcMain, invoked, ops, steps, lastReturned>>

(***************************************************************************)
(* Main thread: lines 381-390                                              *)
(***************************************************************************)
\* KeyboardInterrupt is delivered to the main thread in "while True: pass"
Interrupt ==
    /\ pcMain = "spin"
    /\ pcMain' = "handler"
    /\ UNCHANGED <<persistent_driver, drivers, driver, pc, i, now, cls_output, output,
                   flowIdx, OUTPUT, exc, response, invoked, ops, steps, lastReturned>>

\* line 386 / 129-130: monitor.quit() is self.driver.quit().  Without a
\* self.driver attribute it raises AttributeError; quit() itself may raise.
\* Either exception leaves the handler, and the main thread ends.
MonitorQuit ==
    /\ pcMain = "handler"
    /\ IF driver = 0
       THEN /\ pcMain' = "dead"
            /\ UNCHANGED drivers
       ELSE /\ drivers' = QuitDriver(drivers, driver)
            /\ \E raised \in BOOLEAN :
                 pcMain' = IF raised THEN "dead" ELSE "join"
    /\ UNCHANGED <<persistent_driver, driver, pc, i, now, cls_output, output,
                   flowIdx, OUTPUT, exc, response, invoked, ops, steps, lastReturned>>

\* lines 387-388: t.join() on the monitor thread returns once run() has ended;
\* the next join, on the web server thread, does not return (the server
\* serves forever)
JoinMonitor ==
    /\ pcMain = "join"
    /\ pc = "dead"
    /\ pcMain' = "join_webapp"
    /\ UNCHANGED <<persistent_driver, drivers, driver, pc, i, now, cls_output, output,
                   flowIdx, OUTPUT, exc, response, invoked, ops, steps, lastReturned>>

(***************************************************************************)
(* Spec: the three threads interleaved.                                    *)
(***************************************************************************)
Next ==
    \/ IterationStart
    \/ ExecuteBegin
    \/ FlowCall
    \/ Login(CoarseTimes)
    \/ Debit(CoarseTimes)
    \/ ExecuteReturn
    \/ Sleep
    \/ IterationEnd
    \/ monitor_route
    \/ Interrupt
    \/ MonitorQuit
    \/ JoinMonitor

Spec == Init /\ [][Next]_vars

(***************************************************************************)
(* SpecEngine: the engine thread alone (no interrupt, no status request),  *)
(* with every measured duration of FlowTimes.                              *)
(***************************************************************************)
NextEngine ==
    \/ IterationStart
    \/ ExecuteBegin
    \/ FlowCall
    \/ Login(FlowTimes)
    \/ Debit(FlowTimes)
    \/ ExecuteReturn
    \/ Sleep
    \/ IterationEnd

SpecEngine == Init /\ [][NextEngine]_vars

(***************************************************************************)
(* Properties                                                              *)
(***************************************************************************)
\* the flow names of the steps invoked in the current cycle
InvokedFlows == [n \in 1..Len(invoked) |-> invoked[n][1]]

IsPrefix(p, q) == Len(p) <= Len(q) /\ \A n \in 1..Len(p) : p[n] = q[n]

\* a dict returned by execute() (not the initial {})
IsSnapshot(s) == DOMAIN s # {}

\* C1: every dict returned by execute(), whatever the outcome of the two
\* steps, has a flows mapping whose keys are exactly "login", "debit", in
\* that order.
C1_FlowKeysConfigured ==
    IsSnapshot(lastReturned) => Keys(lastReturned.flows) = flows

\* C1 witness: execute() returned after both steps failed
C1_Witness ==
    /\ pc = "sleep"
    /\ IsSnapshot(lastReturned)
    /\ Values(lastReturned.flows) = <<FALSE, FALSE>>

\* C2: in the dict returned by execute() and in the dict held by the global
\* OUTPUT, success is true exactly when every value of flows is true.
C2_SuccessIffAllFlows ==
    \A s \in {lastReturned, OUTPUT} :
        IsSnapshot(s) =>
            (s.success <=> \A n \in 1..Len(s.flows) : s.flows[n][2] = TRUE)

\* C2 witness: a published dict with success true
C2_Witness ==
    /\ IsSnapshot(OUTPUT)
    /\ OUTPUT.success = TRUE
    /\ Values(OUTPUT.flows) = <<TRUE, TRUE>>

\* a response body with every configured flow and a consistent success field
CompleteResponse(r) ==
    /\ DOMAIN r = {"flows", "success", "error", "duration", "date"}
    /\ DOMAIN r.flows = {flows[n] : n \in 1..Len(flows)}
    /\ r.success <=> \A k \in DOMAIN r.flows : r.flows[k] = TRUE

\* C3: whatever the interleaving of monitor_route with the cycle, a response
\* is the initial {} or a complete, consistent dict; and each new response is
\* the {} or the dict the last finished execute() returned.
C3_ReadNeverPartial ==
    /\ [](\/ response = NoResponse
          \/ response = jsonify(EmptyDict)
          \/ CompleteResponse(response))
    /\ [][response' # response =>
            response' \in {jsonify(EmptyDict), jsonify(lastReturned)}]_vars

\* C3 witness: a complete dict was read while the next cycle has run its first
\* step only
C3_Witness ==
    /\ pc = "for"
    /\ flowIdx = 2
    /\ Len(output.flows) = 1
    /\ IsSnapshot(lastReturned)
    /\ response = jsonify(lastReturned)

\* C4: monitor_route is enabled in every state; a request changes nothing but
\* the response, which is the dict of the last completed cycle ({} if none);
\* OUTPUT always holds that dict and changes only when execute() returns in
\* run().
C4_ReadLastCompleted ==
    /\ [](ENABLED monitor_route)
    /\ [](OUTPUT = lastReturned)
    /\ [][response' # response =>
            (/\ response' = jsonify(lastReturned)
             /\ UNCHANGED <<OUTPUT, pc, output, flowIdx, drivers, driver, i, exc>>)]_vars
    /\ [][OUTPUT' # OUTPUT => pc = "for" /\ flowIdx > Len(flows) /\ pc' = "sleep"]_vars

\* C4 witness: during the second cycle's step, and during the sleep, a request
\* got the dict of the completed cycle
C4_Witness ==
    /\ pc \in {"in_flow", "wake"}
    /\ i = 1
    /\ IsSnapshot(OUTPUT)
    /\ response = jsonify(OUTPUT)

\* the message the specification documents for each failing stage
DocumentedErr(zone) ==
    CASE zone = "find" -> "Could not find login form or input fields"
      [] zone = "fill" -> "Could not fill in login form"
      [] zone = "submit" -> "Could not submit login form"
      [] zone = "inst" -> "Could not find institution element"
      [] zone = "show" -> "Could not find show button for institution"
      [] zone = "pay" -> "Could not find pay button for institution"
      [] OTHER -> ""

\* "<FLOW_NAME_UPPER>: <message>; " for the failed steps of st, in order
RECURSIVE DocumentedError(_)
DocumentedError(st) ==
    IF st = <<>> THEN ""
    ELSE DocumentedError(SubSeq(st, 1, Len(st) - 1)) \o
         (IF st[Len(st)].failed = "" THEN ""
          ELSE upper(st[Len(st)].flow) \o ": " \o DocumentedErr(st[Len(st)].failed) \o "; ")

\* C5: the error of the dict execute() returned is the concatenation, in
\* execution order, of "<FLOW_NAME_UPPER>: <message>; " with the documented
\* message of each failed step, "" when none failed; with login succeeded and
\* debit failed at the show button it is
\* "DEBIT: Could not find show button for institution; ".
C5_ErrorTextDocumented ==
    pc = "sleep" =>
        /\ lastReturned.error = DocumentedError(steps)
        /\ (steps[1].failed = "" /\ steps[2].failed = "show" =>
                /\ Values(lastReturned.flows) = <<TRUE, FALSE>>
                /\ lastReturned.success = FALSE
                /\ lastReturned.error = "DEBIT: Could not find show button for institution; ")

C7_ClosedBeforeSleep ==
    ~persistent_driver /\ pc = "sleep" => drivers[driver] = "Closed"

\* C8: in persistent mode there is one session, created before the loop; every
\* step runs on it; it becomes Closed only by monitor.quit() of the shutdown
\* handler.
C8_PersistentSingleSession ==
    /\ [](persistent_driver =>
            /\ Len(drivers) = 1
            /\ driver = 1
            /\ \A n \in 1..Len(invoked) : invoked[n][2] = 1)
    /\ [][persistent_driver /\ drivers[1] = "Active" /\ drivers'[1] = "Closed" =>
            pcMain = "handler" /\ pcMain' # "handler" /\ pc' = pc]_vars

\* C8 witness: persistent mode, a step of the second iteration runs on the
\* session created at construction
C8_Witness ==
    /\ persistent_driver
    /\ i = 1
    /\ pc = "in_flow"
    /\ invoked[1][2] = 1
    /\ drivers = <<"Active">>

\* C9: no exception raised by a browser operation of a step leaves execute():
\* the engine thread is never ended by an exception of _login or _debit.
C9_StepExceptionsCaptured ==
    ~(pc = "dead" /\ exc \in {"login", "debit"})

\* C10: once the shutdown handler has run monitor.quit(), the engine starts no
\* new cycle and creates no new session, and no session is left Active.
C10_ShutdownStopsEngine ==
    [][(pcMain \in {"join", "join_webapp"}) =>
            (/\ Len(drivers') = Len(drivers)
             /\ ~(pc = "top" /\ pc' = "execute")
             /\ (\A d \in 1..Len(drivers') : drivers'[d] = "Closed"))]_vars

\* C11: monitor.quit() completes without error when no session has been
\* created yet (ephemeral mode before the first cycle): the shutdown handler
\* then goes on to join the threads.
C11_QuitWithoutSession ==
    [][pcMain = "handler" /\ driver = 0 /\ pcMain' # pcMain => pcMain' = "join"]_vars

\* C12: as long as no shutdown signal has arrived the polling loop is never
\* stopped, whatever the outcome of a session creation, a session close or a
\* step.
C12_LoopNeverStops ==
    pcMain = "spin" => pc # "dead" /\ exc = ""

\* the browser operations that look up, fill or submit the login form
FormOps ==
    {"wait(login)", "find(username)", "find(passwordP)", "find(passwordT)",
     "username.click", "username.send_keys", "passwordT.click",
     "passwordP.click", "passwordP.send_keys", "login.submit"}

\* C13: when current_url differs from the login page after the navigation,
\* _login returns (True, "") and has performed no lookup, fill or submit.
C13_LoginShortCircuit ==
    pc = "for" /\ Len(steps) = 1 /\ steps[1].branch =>
        /\ steps[1].flow_output = TRUE
        /\ steps[1].flow_err = ""
        /\ output.flows = <<<<"login", TRUE>>>>
        /\ output.error = ""
        /\ \A n \in 1..Len(ops) : ops[n] \notin FormOps

\* C13 witness: _login returned on the redirected branch
C13_Witness ==
    /\ pc = "for"
    /\ Len(steps) = 1
    /\ steps[1].flow = "login"
    /\ steps[1].branch
    /\ ops = <<"get(login_page)", "current_url", "current_url">>

\* the position of operation o in the sequence q (0: not there)
IndexOf(q, o) == IF \E n \in 1..Len(q) : q[n] = o
                 THEN CHOOSE n \in 1..Len(q) : q[n] = o
                 ELSE 0

\* C14: in _debit a timeout of the institution wait returns
\* (False, "Could not find institution element"), of the show-button wait or
\* click (False, "Could not find show button for institution"), of the
\* pay-button wait (False, "Could not find pay button for institution");
\* (True, "") is returned only when the three waits and the click succeeded.
C14_DebitMessagesDocumented ==
    pc = "for" /\ Len(steps) = 2 /\ steps[2].flow = "debit" =>
        LET st == steps[2] IN
        /\ st.failed = "inst" =>
              st.flow_output = FALSE /\ st.flow_err = "Could not find institution element"
        /\ st.failed = "show" =>
              st.flow_output = FALSE /\ st.flow_err = "Could not find show button for institution"
        /\ st.failed = "pay" =>
              st.flow_output = FALSE /\ st.flow_err = "Could not find pay button for institution"
        /\ st.flow_output = TRUE =>
              /\ st.flow_err = ""
              /\ \A o \in {"wait(institution)", "wait(showDebiteBtn)",
                           "showDebiteBtn.click", "wait(detalii)"} : IndexOf(ops, o) # 0

\* the sum of the measured flow_timer values of st
RECURSIVE SumTimers(_)
SumTimers(st) ==
    IF st = <<>> THEN 0 ELSE SumTimers(SubSeq(st, 1, Len(st) - 1)) + st[Len(st)].flow_timer

\* C15: the duration of the dict execute() returned is the sum of the measured
\* per-step durations rounded once to two decimals, and is not negative.
C15_DurationRoundedOnce ==
    pc = "sleep" =>
        /\ lastReturned.duration = round2(SumTimers(steps))
        /\ lastReturned.duration >= 0

\* C16: every answer of monitor_route, also before the first cycle has
\* completed, is a mapping with the fields flows, success, error, duration, date.
C16_ResponseHasAllFields ==
    response # NoResponse =>
        DOMAIN response = {"flows", "success", "error", "duration", "date"}

\* C17: while the engine thread is executing a flow step no other thread
\* operates on a session: no session changes state during the step.
C17_SessionEngineOnly ==
    [][pc = "in_flow" => drivers' = drivers]_vars

\* C18: _login, not short-circuited, is the sequence lookup, fill username,
\* click decoy, fill password, submit, ended by its first failing stage: a
\* lookup failure returns (False, "Could not find login form or input fields")
\* before any fill or submit, a fill failure (False, "Could not fill in login
\* form") before any submit, a submit failure (False, "Could not submit login
\* form"); the password is typed only after the decoy was clicked.
C18_LoginLinearDocumented ==
    pc = "for" /\ Len(steps) = 1 /\ steps[1].flow = "login" /\ ~steps[1].branch =>
        LET st == steps[1] IN
        /\ st.failed = "find" =>
              /\ st.flow_output = FALSE
              /\ st.flow_err = "Could not find login form or input fields"
              /\ \A o \in {"username.click", "username.send_keys", "passwordT.click",
                           "passwordP.click", "passwordP.send_keys", "login.submit"} :
                    IndexOf(ops, o) = 0
        /\ st.failed = "fill" =>
              /\ st.flow_output = FALSE
              /\ st.flow_err = "Could not fill in login form"
              /\ IndexOf(ops, "login.submit") = 0
        /\ st.failed = "submit" =>
              /\ st.flow_output = FALSE
              /\ st.flow_err = "Could not submit login form"
        /\ IndexOf(ops, "passwordP.send_keys") # 0 =>
              /\ IndexOf(ops, "passwordT.click") # 0
              /\ IndexOf(ops, "passwordT.click") < IndexOf(ops, "passwordP.send_keys")
              /\ IndexOf(ops, "username.send_keys") < IndexOf(ops, "passwordT.click")
        /\ IndexOf(ops, "login.submit") # 0 =>
              IndexOf(ops, "passwordP.send_keys") + 1 = IndexOf(ops, "login.submit")

\* the error text that the returned pairs of st alone produce
RECURSIVE ErrorOfSteps(_)
ErrorOfSteps(st) ==
    IF st = <<>> THEN ""
    ELSE ErrorOfSteps(SubSeq(st, 1, Len(st) - 1)) \o
         (IF st[Len(st)].flow_err = "" THEN ""
          ELSE upper(st[Len(st)].flow) \o ": " \o st[Len(st)].flow_err \o "; ")

\* the duration that the timers of st alone produce, starting from 0
RECURSIVE DurationOfSteps(_)
DurationOfSteps(st) ==
    IF st = <<>> THEN 0
    ELSE round2(DurationOfSteps(SubSeq(st, 1, Len(st) - 1)) + st[Len(st)].flow_timer)

\* C19: execute() never changes the class-level template, and the flows, error
\* and duration of the dict it returns are those of the steps of that cycle
\* alone: nothing of an earlier cycle is carried over.
C19_CyclesDoNotLeak ==
    /\ cls_output = OutputTemplate
    /\ pc = "sleep" =>
          /\ lastReturned.flows = [n \in 1..Len(steps) |-> <<steps[n].flow, steps[n].flow_output>>]
          /\ lastReturned.error = ErrorOfSteps(steps)
          /\ lastReturned.duration = DurationOfSteps(steps)

\* C19 witness: the second cycle returned a dict with no error and the
\* smallest duration
C19_Witness ==
    /\ pc = "sleep"
    /\ i = 1
    /\ lastReturned.date = strftime(1)
    /\ lastReturned.error = ""
    /\ lastReturned.duration = 0
    /\ Values(lastReturned.flows) = <<TRUE, TRUE>>

\* the sessions that are Active
ActiveDrivers == {d \in 1..Len(drivers) : drivers[d] = "Active"}

\* C20: as long as no shutdown signal has arrived, at most one session is
\* Active, and while a flow step runs exactly one is, the one the step was
\* called on.
C20_AtMostOneActive ==
    pcMain = "spin" =>
        /\ Cardinality(ActiveDrivers) <= 1
        /\ pc = "in_flow" =>
              /\ ActiveDrivers = {driver}
              /\ invoked[Len(invoked)][2] = driver

\* C20 witness: ephemeral mode, a step of the second iteration runs on the
\* second session, the first being closed
C20_Witness ==
    /\ pcMain = "spin"
    /\ ~persistent_driver
    /\ pc = "in_flow"
    /\ drivers = <<"Closed", "Active">>
    /\ driver = 2

====
